---- MODULE Spec2Model ----
(***************************************************************************)
(* State-machine model of experiment/runner.py: ExperimentRunner.run_match *)
(* (the per-move time-boxed game loop) and ExperimentRunner.run_tournament *)
(* (the round-robin scheduler that appends to self.results).               *)
(*                                                                         *)
(* The chess rules engine (python-chess) and the agents are external.  The *)
(* engine is modelled at its interface: a board has a side to move, a      *)
(* count of applied half-moves and a terminal classification.  Which       *)
(* classification a position has is the engine's business: `engine` fixes, *)
(* for one behaviour, after how many half-moves the game is over and how;  *)
(* Init draws it from every possibility.  An agent is an object with a     *)
(* name and a choose_move of its own: `profile` fixes, for one behaviour,  *)
(* what each agent's choose_move does when called (return a legal move,    *)
(* raise, overrun the clock, return a move the board rejects); Init draws  *)
(* it from every assignment.                                               *)
(*                                                                         *)
(* experiment/metrics.py: MetricsAnalyzer holds the DataFrame the runner   *)
(* returned (a snapshot of self.results) and derives two tables from it.   *)
(***************************************************************************)
EXTENDS Integers, Sequences, FiniteSets

\* ------------------------------------------------------------- bounds
MaxPlies  == 2   \* longest game (in half-moves) the modelled engine allows
MaxGames  == 6   \* cap on the length of self.results
MaxReps   == 2   \* largest games_per_pair passed to run_tournament
MaxAgents == 3   \* longest agent list passed to run_tournament

Roster        == <<"A", "B", "C", "D", "E">>   \* agent names, all distinct
TimeLimits    == {0, 1}                        \* time_limit arguments (ticks)
ElapsedValues == {1, 2}                        \* measured elapsed times (ticks)
RepValues     == 0 .. MaxReps                  \* games_per_pair arguments
Terminal      == {"checkmate", "stalemate", "insufficient", "other"}
Engines       == [len : 1 .. MaxPlies, final : Terminal]
Names         == {"A", "B", "C"}               \* the agents that play
Kinds         == {"sound", "raises", "slow", "illegal"}
TamperKinds   == Kinds \cup {"meddler"}        \* also: mutates the board it is handed

VARIABLES
    results,        \* self.results
    tpc,            \* run_tournament: "idle" | "running" | "returned" | "raised"
    ais,            \* run_tournament argument: agent names, in list order
    games_per_pair, \* run_tournament argument
    t_limit,        \* run_tournament argument time_limit
    pos,            \* run_tournament loop position [i, j, rep, half]
    base,           \* history: Len(self.results) when run_tournament was called
    played,         \* history: run_match calls made by this run_tournament
    mpc,            \* run_match: "none" | "loop" | "returned" | "raised"
    white_ai,       \* run_match argument (agent name)
    black_ai,       \* run_match argument (agent name)
    time_limit,     \* run_match argument
    board,          \* run_match local
    moves,          \* run_match local
    time_white,     \* run_match local
    time_black,     \* run_match local
    winner,         \* run_match local; "unset" while unbound
    att,            \* history: the last choose_move attempt of this game
    engine,         \* the rules engine's classification of positions
    profile,        \* what each agent's choose_move does
    results_df,     \* the DataFrame last returned (MetricsAnalyzer.results_df)
    table           \* the table the analyzer returned last

vars == <<results, tpc, ais, games_per_pair, t_limit, pos, base, played,
          mpc, white_ai, black_ai, time_limit, board, moves, time_white,
          time_black, winner, att, engine, profile, results_df, table>>

avars == <<results_df, table>>

env == <<engine, profile>>

tvars == <<tpc, ais, games_per_pair, t_limit, pos, base, played>>

\* ------------------------------------------------------- rules engine
\* chess.Board(): white (turn = TRUE) to move, nothing applied.
InitialBoard == [turn |-> TRUE, plies |-> 0, status |-> "ongoing"]

StatusAt(n) == IF n < engine.len THEN "ongoing" ELSE engine.final

IsGameOver(b)             == b.status # "ongoing"
IsCheckmate(b)            == b.status = "checkmate"
IsStalemate(b)            == b.status = "stalemate"
IsInsufficientMaterial(b) == b.status = "insufficient"

\* board.push(move) when it succeeds: the other side is to move.
Push(b) == [turn |-> ~b.turn, plies |-> b.plies + 1, status |-> StatusAt(b.plies + 1)]

\* board.fen(): active colour and full-move number (piece placement is not modelled).
Fen(b) == [active |-> IF b.turn THEN "w" ELSE "b", fullmove |-> 1 + (b.plies \div 2)]

\* ---------------------------------------------------------- run_match
\* History of the choose_move calls of the current game: the last call's
\* side to move, position and measured time, how the iteration ended, and
\* how many calls each side's agent has received so far, and the elapsed
\* times of the calls whose move was applied, summed per colour.
NoAttempt == [mover |-> TRUE, plies |-> 0, fen |-> Fen(InitialBoard),
              elapsed |-> 0, outcome |-> "none", wcalls |-> 0, bcalls |-> 0,
              wtime |-> 0, btime |-> 0]

Attempt(e, o) == [mover |-> board.turn, plies |-> board.plies, fen |-> Fen(board),
                  elapsed |-> e, outcome |-> o,
                  wcalls |-> att.wcalls + (IF board.turn THEN 1 ELSE 0),
                  bcalls |-> att.bcalls + (IF board.turn THEN 0 ELSE 1),
                  wtime |-> att.wtime + (IF o = "applied" /\ board.turn THEN e ELSE 0),
                  btime |-> att.btime + (IF o = "applied" /\ ~board.turn THEN e ELSE 0)]

\* if elapsed > time_limit
IsTimeoutStrict(e, tl) == e > tl
IsTimeoutLoose(e, tl) == e >= tl
IsTimeout(e, tl) == IsTimeoutStrict(e, tl)

\* winner = 'black' if board.turn else 'white'   (timeout and except branches)
ForfeitWinnerOpponent(b) == IF b.turn THEN "black" ELSE "white"
ForfeitWinnerMover(b) == IF b.turn THEN "white" ELSE "black"
ForfeitWinner(b) == ForfeitWinnerOpponent(b)

\* The statements after the loop: they run after a break as well.
PostLoopCode(b, w) ==
    IF IsCheckmate(b) THEN (IF b.turn THEN "black" ELSE "white")
    ELSE IF IsStalemate(b) \/ IsInsufficientMaterial(b) THEN "draw"
    ELSE w
PostLoopSwapped(b, w) ==
    IF IsCheckmate(b) THEN (IF b.turn THEN "white" ELSE "black")
    ELSE IF IsStalemate(b) \/ IsInsufficientMaterial(b) THEN "draw"
    ELSE w
PostLoopWinner(b, w) == PostLoopCode(b, w)

\* Leaving the loop with board b and winner w: classify, then build the
\* GameResult; reading an unbound `winner` raises UnboundLocalError.
Finish(b, w) ==
    LET fw == PostLoopWinner(b, w) IN
    /\ winner' = fw
    /\ mpc' = IF fw = "unset" THEN "raised" ELSE "returned"

\* The GameResult run_match returns (meaningful when mpc = "returned").
GameResult ==
    [white_ai |-> white_ai, black_ai |-> black_ai, winner |-> winner,
     moves |-> moves, time_white |-> time_white, time_black |-> time_black,
     final_fen |-> Fen(board)]

\* Lines 39-42: the locals of a fresh call.
EnterMatchCode(w, b, tl) ==
    /\ white_ai' = w
    /\ black_ai' = b
    /\ time_limit' = tl
    /\ board' = InitialBoard
    /\ moves' = 0
    /\ time_white' = 0
    /\ time_black' = 0
    /\ winner' = "unset"
    /\ att' = NoAttempt
    /\ mpc' = "loop"

EnterMatchStale(w, b, tl) ==
    /\ white_ai' = w
    /\ black_ai' = b
    /\ time_limit' = tl
    /\ UNCHANGED <<board, moves, time_white, time_black>>
    /\ winner' = "unset"
    /\ att' = NoAttempt
    /\ mpc' = "loop"

EnterMatch(w, b, tl) == EnterMatchCode(w, b, tl)

\* The locals are discarded when the caller has consumed the outcome.
LeaveMatch ==
    /\ white_ai' = "" /\ black_ai' = "" /\ time_limit' = 0
    /\ board' = InitialBoard /\ moves' = 0 /\ time_white' = 0 /\ time_black' = 0
    /\ winner' = "unset" /\ att' = NoAttempt /\ mpc' = "none"

InLoop == mpc = "loop" /\ ~IsGameOver(board)

\* current_ai = white_ai if board.turn else black_ai
CurrentAi == IF board.turn THEN white_ai ELSE black_ai

\* What current_ai.choose_move(board) does, and the time it takes.
Kind(a) == IF a \in DOMAIN profile THEN profile[a] ELSE "sound"
Raises(a)          == Kind(a) \in {"raises", "meddler"}
Returns(a, e)      == (Kind(a) \in {"sound", "illegal"} /\ e = 1) \/ (Kind(a) \in {"slow", "meddler"} /\ e = 2)
ReturnsLegal(a, e) == Returns(a, e) /\ Kind(a) \in {"sound", "slow"}
ReturnsBad(a, e)   == Returns(a, e) /\ Kind(a) = "illegal"

\* if board.turn: time_white += elapsed else: time_black += elapsed
AccumulateCode(b, e) ==
    /\ time_white' = IF b.turn THEN time_white + e ELSE time_white
    /\ time_black' = IF b.turn THEN time_black ELSE time_black + e
AccumulateSwapped(b, e) ==
    /\ time_white' = IF b.turn THEN time_white ELSE time_white + e
    /\ time_black' = IF b.turn THEN time_black + e ELSE time_black
Accumulate(b, e) == AccumulateCode(b, e)

\* One loop iteration in which choose_move raises.  b is the board as the
\* agent left it (the agent is handed the board itself, not a copy).
ChooseMoveRaisesOn(b) ==
    /\ InLoop
    /\ Raises(CurrentAi)
    /\ att' = Attempt(0, "agent_error")
    /\ board' = b
    /\ Finish(b, ForfeitWinner(b))
    /\ UNCHANGED <<moves, time_white, time_black>>

\* One loop iteration in which the call took longer than time_limit.
TimeoutOn(b, e) ==
    /\ InLoop
    /\ Returns(CurrentAi, e)
    /\ IsTimeout(e, time_limit)
    /\ att' = Attempt(e, "timeout")
    /\ board' = b
    /\ Finish(b, ForfeitWinner(b))
    /\ UNCHANGED <<moves, time_white, time_black>>

\* One loop iteration in which board.push(move) raises: the elapsed time
\* has been accumulated already, the board is as it was before the push.
PushRaisesOn(b, e) ==
    /\ InLoop
    /\ ReturnsBad(CurrentAi, e)
    /\ ~IsTimeout(e, time_limit)
    /\ att' = Attempt(e, "push_error")
    /\ Accumulate(b, e)
    /\ board' = b
    /\ Finish(b, ForfeitWinner(b))
    /\ UNCHANGED moves

MovesAfterPush(m) == m + 1
MovesNotCounted(m) == m
CountMove(m) == MovesAfterPush(m)

\* One loop iteration that applies the move.
MoveAppliedOn(b, e) ==
    /\ InLoop
    /\ ReturnsLegal(CurrentAi, e)
    /\ ~IsTimeout(e, time_limit)
    /\ att' = Attempt(e, "applied")
    /\ Accumulate(b, e)
    /\ board' = Push(b)
    /\ moves' = CountMove(moves)
    /\ UNCHANGED <<mpc, winner>>

IsMeddler == Kind(CurrentAi) = "meddler"

ChooseMoveRaises == ~IsMeddler /\ ChooseMoveRaisesOn(board) /\ UNCHANGED <<results, white_ai, black_ai, time_limit, env, tvars, avars>>
Timeout == ~IsMeddler /\ (\E e \in ElapsedValues : TimeoutOn(board, e)) /\ UNCHANGED <<results, white_ai, black_ai, time_limit, env, tvars, avars>>
PushRaises == \E e \in ElapsedValues : PushRaisesOn(board, e) /\ UNCHANGED <<results, white_ai, black_ai, time_limit, env, tvars, avars>>
MoveApplied == \E e \in ElapsedValues : MoveAppliedOn(board, e) /\ UNCHANGED <<results, white_ai, black_ai, time_limit, env, tvars, avars>>

\* while not board.is_game_over(): the loop ends on a terminal position.
LoopExit ==
    /\ mpc = "loop"
    /\ IsGameOver(board)
    /\ Finish(board, winner)
    /\ UNCHANGED <<results, white_ai, black_ai, time_limit, board, moves,
                   time_white, time_black, att, env, tvars, avars>>

\* An agent that mutates the board it was handed (pushes a move itself)
\* before it raises, or before it returns too late.
TamperRaises == IsMeddler /\ ChooseMoveRaisesOn(Push(board)) /\ UNCHANGED <<results, white_ai, black_ai, time_limit, env, tvars, avars>>
TamperTimeout == IsMeddler /\ (\E e \in ElapsedValues : TimeoutOn(Push(board), e)) /\ UNCHANGED <<results, white_ai, black_ai, time_limit, env, tvars, avars>>

\* A caller other than run_tournament calls run_match (explored on a
\* runner that has not run a tournament yet).
RunMatchDirect ==
    /\ tpc = "idle"
    /\ mpc # "loop"
    /\ \E tl \in TimeLimits : \E p \in {<<1, 2>>, <<2, 1>>} :
           EnterMatch(Roster[p[1]], Roster[p[2]], tl)
    /\ UNCHANGED <<results, env, tvars, avars>>

\* ----------------------------------------------------- get_results_df
\* pd.DataFrame([vars(r) for r in self.results]): a new frame, one row per
\* entry, in log order.  `made` tells a frame from no frame at all.
NoFrame == [made |-> FALSE, rows |-> <<>>]
DataFrame(log) == [made |-> TRUE, rows |-> log]
NoTable == [kind |-> "none", rows |-> <<>>, again |-> FALSE]

\* ----------------------------------------------------- run_tournament
NoPos == [i |-> 0, j |-> 0, rep |-> 0, half |-> 0]

\* total_games = len(ais) * (len(ais) - 1) * games_per_pair
TotalGames(n, k) == n * (n - 1) * k

\* The first execution of the loop body, if there is one.
FirstPos(n, k) ==
    IF n >= 2 /\ k >= 1 THEN [i |-> 1, j |-> 2, rep |-> 1, half |-> 1] ELSE NoPos

\* for i, ai1 in enumerate(ais): for ai2 in ais[i+1:]:
\*     for _ in range(games_per_pair): <game 1>; <game 2>
NextPosCode(p, n, k) ==
    IF p.half = 1 THEN [p EXCEPT !.half = 2]
    ELSE IF p.rep < k THEN [p EXCEPT !.rep = p.rep + 1, !.half = 1]
    ELSE IF p.j < n THEN [i |-> p.i, j |-> p.j + 1, rep |-> 1, half |-> 1]
    ELSE IF p.i + 1 < n THEN [i |-> p.i + 1, j |-> p.i + 2, rep |-> 1, half |-> 1]
    ELSE NoPos
\* a scheduler that plays all of a pair's first-colour games, then none reversed
NextPosNoReverse(p, n, k) ==
    IF p.rep < k THEN [p EXCEPT !.rep = p.rep + 1, !.half = 1]
    ELSE IF p.j < n THEN [i |-> p.i, j |-> p.j + 1, rep |-> 1, half |-> 1]
    ELSE IF p.i + 1 < n THEN [i |-> p.i + 1, j |-> p.i + 2, rep |-> 1, half |-> 1]
    ELSE NoPos
NextPos(p, n, k) == NextPosCode(p, n, k)

\* run_match(ai1, ai2, ...) then run_match(ai2, ai1, ...)
WhiteAt(p) == IF p.half = 1 THEN ais[p.i] ELSE ais[p.j]
BlackAt(p) == IF p.half = 1 THEN ais[p.j] ELSE ais[p.i]

\* A call of run_tournament up to its first run_match (or to its return,
\* when the loops have no iteration).  Nothing validates the arguments and
\* self.results is not reset.  The frame and table of an earlier analysis
\* are dropped here: a later analysis works on the frame of the later call.
\* As the call reads neither, it is taken from the state before the tables
\* were made, which reaches the same states as taking it after them.
RunTournament ==
    /\ tpc # "running"
    /\ table = NoTable
    /\ mpc # "loop"
    /\ \E n \in 0 .. MaxAgents : \E k \in RepValues : \E tl \in TimeLimits :
        /\ Len(results) + (IF TotalGames(n, k) > 0 THEN TotalGames(n, k) ELSE 0) <= MaxGames
        /\ ais' = SubSeq(Roster, 1, n)
        /\ games_per_pair' = k
        /\ t_limit' = tl
        /\ pos' = FirstPos(n, k)
        /\ tpc' = IF FirstPos(n, k) = NoPos THEN "returned" ELSE "running"
        /\ results_df' = IF FirstPos(n, k) = NoPos THEN DataFrame(results) ELSE NoFrame
    /\ table' = NoTable
    /\ base' = Len(results)
    /\ played' = 0
    /\ LeaveMatch
    /\ UNCHANGED <<results, env>>

\* self.run_match(...) is called for the current loop position.
CallRunMatch ==
    /\ tpc = "running"
    /\ mpc = "none"
    /\ EnterMatch(WhiteAt(pos), BlackAt(pos), t_limit)
    /\ played' = played + 1
    /\ UNCHANGED <<results, tpc, ais, games_per_pair, t_limit, pos, base, env, avars>>

\* self.results.append(<the GameResult>); then the loops advance, and
\* run_tournament returns get_results_df() when they are exhausted.
AppendResult ==
    /\ tpc = "running"
    /\ mpc = "returned"
    /\ results' = Append(results, GameResult)
    /\ LET np == NextPos(pos, Len(ais), games_per_pair) IN
        /\ pos' = np
        /\ tpc' = IF np = NoPos THEN "returned" ELSE "running"
        /\ results_df' = IF np = NoPos THEN DataFrame(results') ELSE results_df
    /\ LeaveMatch
    /\ UNCHANGED <<ais, games_per_pair, t_limit, base, played, env, table>>

\* run_match raised: run_tournament has no handler, the error reaches its caller.
PropagateError ==
    /\ tpc = "running"
    /\ mpc = "raised"
    /\ tpc' = "raised"
    /\ LeaveMatch
    /\ UNCHANGED <<results, ais, games_per_pair, t_limit, pos, base, played, env, avars>>

\* ------------------------------------------------------------ metrics
\* results_df['white_ai'].unique() and results_df['black_ai'].unique(),
\* joined in a Python set.
AiNames(df) == {df[x].white_ai : x \in DOMAIN df} \cup {df[x].black_ai : x \in DOMAIN df}

\* The rows of a frame that pass a boolean mask, in the frame's order.
WhiteGamesOf(df, ai_name) == SelectSeq(df, LAMBDA r : r.white_ai = ai_name)
BlackGamesOf(df, ai_name) == SelectSeq(df, LAMBDA r : r.black_ai = ai_name)
WonBy(games, colour) == Len(SelectSeq(games, LAMBDA r : r.winner = colour))

WhiteWins(white_games) == WonBy(white_games, "white")
WhiteLosses(white_games) == WonBy(white_games, "black")
WhiteDraws(white_games) == WonBy(white_games, "draw")

BlackWinsCode(black_games) == WonBy(black_games, "black")
BlackWinsAsWhite(black_games) == WonBy(black_games, "white")
BlackWins(black_games) == BlackWinsCode(black_games)

BlackLossesCode(black_games) == WonBy(black_games, "white")
BlackLossesAsWhite(black_games) == WonBy(black_games, "black")
BlackLosses(black_games) == BlackLossesCode(black_games)

BlackDraws(black_games) == WonBy(black_games, "draw")

TotalGamesPlayedCode(white_games, black_games) == Len(white_games) + Len(black_games)
TotalGamesPlayedWhiteOnly(white_games, black_games) == Len(white_games)
TotalGamesPlayed(white_games, black_games) == TotalGamesPlayedCode(white_games, black_games)

\* (total_wins + 0.5 * total_draws) / total_games if total_games > 0 else 0,
\* kept as the fraction (2 * wins + draws) / (2 * games) so that halves stay
\* exact; 0 is the fraction 0 / 1.
WinRate(total_wins, total_draws, total_games) ==
    IF total_games > 0
        THEN [num |-> 2 * total_wins + total_draws, den |-> 2 * total_games]
        ELSE [num |-> 0, den |-> 1]

\* Comparison of two fractions with positive denominators.
RateGeq(r, q) == r.num * q.den >= q.num * r.den
RateEq(r, q) == r.num * q.den = q.num * r.den

\* One iteration of the loop of get_win_rates: the dictionary appended to
\* stats for ai_name.
WinRateRow(df, ai_name) ==
    LET white_games == WhiteGamesOf(df, ai_name)
        black_games == BlackGamesOf(df, ai_name)
        total_games == TotalGamesPlayed(white_games, black_games)
        total_wins == WhiteWins(white_games) + BlackWins(black_games)
        total_losses == WhiteLosses(white_games) + BlackLosses(black_games)
        total_draws == WhiteDraws(white_games) + BlackDraws(black_games)
    IN  [ai_name |-> ai_name, games_played |-> total_games, wins |-> total_wins,
         losses |-> total_losses, draws |-> total_draws,
         win_rate |-> WinRate(total_wins, total_draws, total_games)]

\* The orders in which a Python set of strings may be iterated: string hashes
\* are salted per interpreter run, so every order of the elements can occur.
IterationOrders(S) ==
    {o \in [1 .. Cardinality(S) -> S] : \A x, y \in DOMAIN o : x # y => o[x] # o[y]}

\* sort_values('win_rate', ascending=False): the default sort kind is
\* quicksort, which promises the order of the keys and nothing about rows
\* whose keys are equal.
SortedByWinRate(rows) ==
    \A x, y \in DOMAIN rows : x < y => RateGeq(rows[x].win_rate, rows[y].win_rate)

\* The names of a table's rows, in row order.
RowNames(rows) == [x \in DOMAIN rows |-> rows[x].ai_name]

\* Within one interpreter run the hashes are fixed: a query asked again over
\* the same names iterates them as it did before, and the same sort gives
\* the same rows.
Repeats(rows, kind, old) ==
    (old.kind = kind /\ {rows[x].ai_name : x \in DOMAIN rows}
                         = {old.rows[x].ai_name : x \in DOMAIN old.rows})
        => RowNames(rows) = RowNames(old.rows)

\* What a query leaves as the table last returned; `again` records that the
\* same query had been answered on this frame before.
Returned(kind, rows) == [kind |-> kind, rows |-> rows, again |-> table.kind = kind]

\* Every table get_win_rates can return for a non-empty frame.
WinRateTables(df) ==
    {t \in {[x \in DOMAIN o |-> WinRateRow(df, o[x])] : o \in IterationOrders(AiNames(df))} :
        SortedByWinRate(t)}

RECURSIVE SumMoves(_)
SumMoves(games) == IF games = <<>> THEN 0 ELSE Head(games).moves + SumMoves(Tail(games))

\* pd.concat([white_games, black_games])
AllGamesCode(white_games, black_games) == white_games \o black_games
AllGamesWhiteOnly(white_games, black_games) == white_games
AllGames(white_games, black_games) == AllGamesCode(white_games, black_games)

\* all_games['moves'].mean(), kept as the pair of the sum and the count.
Mean(games) == [sum |-> SumMoves(games), n |-> Len(games)]

\* One iteration of the loop of get_average_game_length.
AverageRow(df, ai_name) ==
    LET white_games == WhiteGamesOf(df, ai_name)
        black_games == BlackGamesOf(df, ai_name)
        all_games == AllGames(white_games, black_games)
    IN  [ai_name |-> ai_name, average_moves |-> Mean(all_games)]

\* Every table get_average_game_length can return for a non-empty frame: the
\* rows stay in the order of the iteration.
AverageTables(df) ==
    {[x \in DOMAIN o |-> AverageRow(df, o[x])] : o \in IterationOrders(AiNames(df))}

\* The frame the analyzer holds after a query.  Both queries only read it:
\* masks and concat build new frames.
FrameAfterQueryCode(df) == df
FrameAfterQueryConsumed(df) == [df EXCEPT !.rows = IF df.rows = <<>> THEN <<>> ELSE Tail(df.rows)]
FrameAfterQuery(df) == FrameAfterQueryCode(df)

\* The analysis is explored on the frame a call of run_tournament returned
\* after playing games, and on the frame get_results_df built: a call that
\* played no game returns the log an earlier state already had.
CanAnalyze ==
    /\ results_df.made
    /\ mpc # "loop"
    /\ tpc = "returned" => played > 0

\* runner.get_results_df() between calls: a fresh frame of the log as it is.
GetResultsDf ==
    /\ tpc \in {"idle", "raised"}
    /\ mpc # "loop"
    /\ results_df' = DataFrame(results)
    /\ table' = NoTable
    /\ UNCHANGED <<results, white_ai, black_ai, time_limit, board, moves, time_white,
                   time_black, winner, att, mpc, env, tvars>>

\* MetricsAnalyzer(results_df).get_win_rates().  A frame built from an empty
\* list has no columns, so results_df['white_ai'] raises KeyError.
GetWinRates ==
    /\ CanAnalyze
    /\ IF results_df.rows = <<>>
          THEN table' = Returned("KeyError", <<>>)
          ELSE \E t \in WinRateTables(results_df.rows) :
                  /\ Repeats(t, "win_rates", table)
                  /\ table' = Returned("win_rates", t)
    /\ results_df' = FrameAfterQuery(results_df)
    /\ UNCHANGED <<results, white_ai, black_ai, time_limit, board, moves, time_white,
                   time_black, winner, att, mpc, env, tvars>>

\* MetricsAnalyzer(results_df).get_average_game_length().
GetAverageGameLength ==
    /\ CanAnalyze
    /\ IF results_df.rows = <<>>
          THEN table' = Returned("KeyError", <<>>)
          ELSE \E t \in AverageTables(results_df.rows) :
                  /\ Repeats(t, "average_moves", table)
                  /\ table' = Returned("average_moves", t)
    /\ results_df' = FrameAfterQuery(results_df)
    /\ UNCHANGED <<results, white_ai, black_ai, time_limit, board, moves, time_white,
                   time_black, winner, att, mpc, env, tvars>>

\* ------------------------------------------------------ specification
Start ==
    /\ results = <<>>
    /\ tpc = "idle"
    /\ ais = <<>>
    /\ games_per_pair = 0
    /\ t_limit = 0
    /\ pos = NoPos
    /\ base = 0
    /\ played = 0
    /\ mpc = "none"
    /\ white_ai = ""
    /\ black_ai = ""
    /\ time_limit = 0
    /\ board = InitialBoard
    /\ moves = 0
    /\ time_white = 0
    /\ time_black = 0
    /\ winner = "unset"
    /\ att = NoAttempt
    /\ engine \in Engines
    /\ results_df = NoFrame
    /\ table = NoTable

\* Agents honour the interface: choose_move does not mutate the board.
Init == Start /\ profile \in [Names -> Kinds]

\* Agents may also mutate the board they are handed.
InitTamper == Start /\ profile \in [Names -> TamperKinds]

Next ==
    \/ RunTournament
    \/ CallRunMatch
    \/ AppendResult
    \/ PropagateError
    \/ RunMatchDirect
    \/ ChooseMoveRaises
    \/ Timeout
    \/ PushRaises
    \/ MoveApplied
    \/ LoopExit
    \/ GetResultsDf
    \/ GetWinRates
    \/ GetAverageGameLength

Spec == Init /\ [][Next]_vars

\* The steps the interpreter takes by itself once a call is under way; calls
\* from outside (run_tournament, run_match, the queries) need not happen.
\* Python runs them on one thread, and every choose_move of the model
\* returns or raises, so a step that can be taken is taken.
ProgramStep ==
    \/ CallRunMatch
    \/ AppendResult
    \/ PropagateError
    \/ ChooseMoveRaises
    \/ Timeout
    \/ PushRaises
    \/ MoveApplied
    \/ LoopExit

FairSpec == Init /\ [][Next]_vars /\ WF_vars(ProgramStep)

NextTamper ==
    \/ Next
    \/ TamperRaises
    \/ TamperTimeout

SpecTamper == InitTamper /\ [][NextTamper]_vars

\* ------------------------------------------------------------- claims
Forfeits == {"agent_error", "timeout", "push_error"}
Winners  == {"white", "black", "draw"}
Opponent(mover) == IF mover THEN "black" ELSE "white"

\* Number of entries of log with the given white and black agent.
Count(log, w, b) ==
    Cardinality({x \in 1 .. Len(log) : log[x].white_ai = w /\ log[x].black_ai = b})

ValidArgs == Len(ais) >= 2 /\ games_per_pair >= 1

\* C1: every run_match call ends by returning a GameResult whose winner is
\* white, black or draw and whose moves >= 0, however the game ended; no
\* call ends with an error.
C1_RunMatchAlwaysReturnsResult ==
    /\ mpc # "raised"
    /\ mpc = "returned" => (GameResult.winner \in Winners /\ GameResult.moves >= 0)

\* C2: when choose_move raises, applying the move raises, or the call
\* overran time_limit, run_match returns a GameResult at that attempt and
\* the winner is the colour opposite to the side whose turn it was.
C2_MisbehaviourIsForfeit ==
    att.outcome \in Forfeits =>
        /\ mpc = "returned"
        /\ GameResult.winner = Opponent(att.mover)

C2_Witness ==
    mpc = "returned" /\ att.outcome = "push_error" /\ ~att.mover /\ winner = "white"

\* C3: moves is the number of moves applied to the board; a timeout is an
\* elapsed time strictly above the limit; after a forfeit the forfeiting
\* move is neither applied nor counted: moves and final_fen are those of
\* the position in which choose_move was called.
C3_MovesCountsAppliedMoves ==
    /\ mpc \in {"loop", "returned", "raised"} => moves = board.plies
    /\ att.outcome = "timeout" => att.elapsed > time_limit
    /\ att.outcome \in {"applied", "push_error"} => att.elapsed <= time_limit
    /\ (mpc = "returned" /\ att.outcome \in Forfeits) =>
            /\ GameResult.moves = att.plies
            /\ GameResult.final_fen = att.fen

C3_Witness ==
    mpc = "returned" /\ att.outcome = "timeout" /\ moves = 1 /\ att.elapsed = time_limit + 1

\* C4: for N >= 2 agents with distinct names and k >= 1, the log produced
\* by run_tournament has exactly N*(N-1)*k entries: for every two distinct
\* agents exactly k with the one as white and the other as black, and no
\* entry with the same agent on both sides.
C4_RoundRobinComplete ==
    (tpc = "returned" /\ ValidArgs) =>
        /\ Len(results) = Len(ais) * (Len(ais) - 1) * games_per_pair
        /\ \A x \in 1 .. Len(ais) : \A y \in 1 .. Len(ais) :
               Count(results, ais[x], ais[y]) = IF x = y THEN 0 ELSE games_per_pair

\* The part of the log appended by the current (or last) run_tournament call.
Appended == SubSeq(results, base + 1, Len(results))

\* C4 holds of what one call appends (and of the whole log on a fresh runner).
RoundRobinCompleteOfCall ==
    (tpc = "returned" /\ ValidArgs) =>
        /\ Len(Appended) = Len(ais) * (Len(ais) - 1) * games_per_pair
        /\ \A x \in 1 .. Len(ais) : \A y \in 1 .. Len(ais) :
               Count(Appended, ais[x], ais[y]) = IF x = y THEN 0 ELSE games_per_pair

\* The pairs (i, j), i < j, of an n-element list, and the one that has q
\* pairs before it in the order "i ascending, then j ascending".
Pairs(n) == {p \in (1 .. n) \X (1 .. n) : p[1] < p[2]}
Before(p, q) == p[1] < q[1] \/ (p[1] = q[1] /\ p[2] < q[2])
PairOfRank(n, q) ==
    CHOOSE p \in Pairs(n) : Cardinality({o \in Pairs(n) : Before(o, p)}) = q

\* The colours of the r-th game (r = 1, 2, ...) of a call, by position alone.
ExpectedWhite(r) ==
    LET p == PairOfRank(Len(ais), (r - 1) \div (2 * games_per_pair))
    IN  IF (r - 1) % 2 = 0 THEN ais[p[1]] ELSE ais[p[2]]
ExpectedBlack(r) ==
    LET p == PairOfRank(Len(ais), (r - 1) \div (2 * games_per_pair))
    IN  IF (r - 1) % 2 = 0 THEN ais[p[2]] ELSE ais[p[1]]

\* C5: the entries one run_tournament call appends come in a fixed order:
\* pairs (i, j) with i ascending and j ascending from i+1, the k repetitions
\* of a pair consecutive, "i white" immediately before "j white"; so the
\* colours at each position depend on the agent list and k only.
C5_EnumerationOrder ==
    \A r \in 1 .. Len(Appended) :
        /\ Appended[r].white_ai = ExpectedWhite(r)
        /\ Appended[r].black_ai = ExpectedBlack(r)

C5_Witness ==
    /\ tpc = "returned" /\ Len(ais) = 3 /\ games_per_pair = 1 /\ Len(Appended) = 6
    /\ Appended[4].white_ai = "C" /\ Appended[4].black_ai = "A"

\* C6: run_tournament called with fewer than 2 agents, games_per_pair <= 0
\* or time_limit <= 0 fails with an error before any game: no run_match is
\* started and the log is left unchanged.
C6_InvalidParametersRejected ==
    (tpc # "idle" /\ (Len(ais) < 2 \/ games_per_pair <= 0 \/ t_limit <= 0)) =>
        /\ tpc = "rejected"
        /\ played = 0
        /\ Len(results) = base

\* C7: when the loop exits without a forfeit the winner follows the final
\* position: checkmate gives the win to the side not to move, stalemate or
\* insufficient material a draw; a stalemate after N applied moves has
\* moves = N.
C7_TerminalClassification ==
    (mpc = "returned" /\ att.outcome \notin Forfeits) =>
        /\ IsCheckmate(board) => GameResult.winner = (IF board.turn THEN "black" ELSE "white")
        /\ (IsStalemate(board) \/ IsInsufficientMaterial(board)) => GameResult.winner = "draw"
        /\ IsStalemate(board) => GameResult.moves = board.plies
        /\ IsGameOver(board)

C7_Witness ==
    /\ mpc = "returned" /\ att.outcome = "applied"
    /\ IsCheckmate(board) /\ board.turn /\ winner = "black" /\ moves = 2

\* C8: a forfeit is final and independent of the board: the returned
\* winner is the opponent of the side that was to move when choose_move
\* was called, whatever state the board is in after the failing call.
C8_ForfeitIndependentOfBoard ==
    (mpc \in {"returned", "raised"} /\ att.outcome \in Forfeits) =>
        /\ mpc = "returned"
        /\ winner = (IF att.mover THEN "black" ELSE "white")

BlackFirstCallRaises == att.outcome = "agent_error" /\ ~att.mover /\ att.bcalls = 1

\* C9 (as claimed): when black's choose_move raises on its first call of
\* the game, white wins and moves is 0.
C9_BlackFirstCallRaisesMovesZero ==
    BlackFirstCallRaises => (mpc = "returned" /\ winner = "white" /\ moves = 0)

\* C9 (amended): when black's choose_move raises on its first call of the
\* game, white wins and moves counts white's prior moves only, which is 1:
\* white has moved once before black is first asked.
C9_BlackFirstCallRaisesMovesOne ==
    BlackFirstCallRaises =>
        /\ mpc = "returned"
        /\ GameResult.winner = "white"
        /\ GameResult.moves = att.wcalls
        /\ GameResult.moves = 1

C9_Witness == BlackFirstCallRaises /\ mpc = "returned" /\ moves = 1

\* C10: the log a run_tournament call returns holds only the games played
\* by that call, so its length is N*(N-1)*k for the call's arguments.
C10_LogScopedToOneRun ==
    tpc = "returned" =>
        /\ Len(results) = played
        /\ ValidArgs => Len(results) = Len(ais) * (Len(ais) - 1) * games_per_pair

\* The append-only half of C10: no step removes, reorders or changes an entry.
LogAppendOnly ==
    [][Len(results') >= Len(results) /\ SubSeq(results', 1, Len(results)) = results]_vars


\* ---------------------------------------------------- claims on metrics
\* The number of rows of a frame in which `ai` sat on `side` and the winner
\* column holds one of `ws`; counted over the row numbers, not by filtering.
Entries(df, ai, side, ws) ==
    Cardinality({x \in DOMAIN df :
        /\ (IF side = "white" THEN df[x].white_ai ELSE df[x].black_ai) = ai
        /\ df[x].winner \in ws})

Frame == results_df.rows
WinRatesMade == table.kind = "win_rates"
AveragesMade == table.kind = "average_moves"

\* The frame holds exactly two games between A and B, one with each as
\* white, and white won both.
TwoGamesWhiteWinsBoth ==
    /\ Len(Frame) = 2
    /\ \A x \in DOMAIN Frame : Frame[x].winner = "white"
    /\ {<<Frame[x].white_ai, Frame[x].black_ai>> : x \in DOMAIN Frame} = {<<"A", "B">>, <<"B", "A">>}

\* C11: get_win_rates returns one row per agent name in the log, holding
\* games_played = its entries as white plus its entries as black, wins = its
\* white entries won by white plus its black entries won by black, losses
\* the other way round, draws = its entries with winner 'draw', and
\* win_rate = (wins + 0.5 * draws) / games_played; after two games between A
\* and B that white won, both have games_played = 2 and win_rate = 0.5.
C11_WinRatesPerAgent ==
    WinRatesMade =>
        /\ {table.rows[x].ai_name : x \in DOMAIN table.rows} = AiNames(Frame)
        /\ Len(table.rows) = Cardinality(AiNames(Frame))
        /\ \A x \in DOMAIN table.rows :
            LET r == table.rows[x]
                a == r.ai_name
            IN  /\ r.games_played = Entries(Frame, a, "white", Winners)
                                      + Entries(Frame, a, "black", Winners)
                /\ r.wins = Entries(Frame, a, "white", {"white"})
                              + Entries(Frame, a, "black", {"black"})
                /\ r.losses = Entries(Frame, a, "white", {"black"})
                                + Entries(Frame, a, "black", {"white"})
                /\ r.draws = Entries(Frame, a, "white", {"draw"})
                               + Entries(Frame, a, "black", {"draw"})
                /\ r.games_played > 0
                /\ r.win_rate.den > 0
                /\ r.win_rate.num * 2 * r.games_played
                     = (2 * r.wins + r.draws) * r.win_rate.den
                /\ TwoGamesWhiteWinsBoth =>
                     r.games_played = 2 /\ 2 * r.win_rate.num = r.win_rate.den

C11_Witness == WinRatesMade /\ TwoGamesWhiteWinsBoth

\* C12: every win_rate lies in [0, 1] and is 1 exactly when the agent won
\* every game it played; in integers 0 <= 2 * wins + draws <= 2 * games_played
\* with equality on the right exactly when wins = games_played.
C12_WinRateBounds ==
    WinRatesMade =>
        \A x \in DOMAIN table.rows :
            LET r == table.rows[x]
            IN  /\ r.win_rate.den > 0
                /\ 0 <= r.win_rate.num
                /\ r.win_rate.num <= r.win_rate.den
                /\ (r.win_rate.num = r.win_rate.den) <=> (r.wins = r.games_played)
                /\ 0 <= 2 * r.wins + r.draws
                /\ 2 * r.wins + r.draws <= 2 * r.games_played
                /\ (2 * r.wins + r.draws = 2 * r.games_played) <=> (r.wins = r.games_played)

\* One agent won all its games and another has a rate strictly between.
C12_Witness ==
    /\ WinRatesMade
    /\ \E x \in DOMAIN table.rows :
           table.rows[x].win_rate.num = table.rows[x].win_rate.den
    /\ \E x \in DOMAIN table.rows :
           /\ 0 < table.rows[x].win_rate.num
           /\ table.rows[x].win_rate.num < table.rows[x].win_rate.den

\* The place of a name's first appearance in the frame, reading each row's
\* white_ai before its black_ai.
FirstAppearance(df, ai) ==
    LET at == {x \in DOMAIN df : ai \in {df[x].white_ai, df[x].black_ai}}
        x0 == CHOOSE x \in at : \A y \in at : x <= y
    IN  2 * x0 - (IF df[x0].white_ai = ai THEN 1 ELSE 0)

\* C13: the table of get_win_rates is ordered by win_rate descending, and
\* rows with equal win_rate stand in the order in which their names first
\* appear in the log.
C13_TiesInFirstAppearanceOrder ==
    WinRatesMade =>
        \A x, y \in DOMAIN table.rows :
            x < y =>
                /\ RateGeq(table.rows[x].win_rate, table.rows[y].win_rate)
                /\ RateEq(table.rows[x].win_rate, table.rows[y].win_rate) =>
                      FirstAppearance(Frame, table.rows[x].ai_name)
                        < FirstAppearance(Frame, table.rows[y].ai_name)

\* The statistics of a table, agent by agent, whatever the order of rows.
PerAgent(rows) == {rows[x] : x \in DOMAIN rows}

TookPart(df, ai) == {x \in DOMAIN df : ai \in {df[x].white_ai, df[x].black_ai}}

RECURSIVE MovesUpTo(_, _, _)
MovesUpTo(df, ai, x) ==
    IF x = 0 THEN 0
    ELSE MovesUpTo(df, ai, x - 1) + (IF x \in TookPart(df, ai) THEN df[x].moves ELSE 0)

\* C15: get_average_game_length reports for every agent the arithmetic mean
\* of moves over the games it took part in as either colour, each game
\* counted once.
C15_AverageOverAllGames ==
    AveragesMade =>
        /\ {table.rows[x].ai_name : x \in DOMAIN table.rows} = AiNames(Frame)
        /\ Len(table.rows) = Cardinality(AiNames(Frame))
        /\ \A x \in DOMAIN table.rows :
            LET r == table.rows[x]
            IN  /\ r.average_moves.n = Cardinality(TookPart(Frame, r.ai_name))
                /\ r.average_moves.n > 0
                /\ r.average_moves.sum = MovesUpTo(Frame, r.ai_name, Len(Frame))

\* An agent that played as white and as black, in games of different length.
C15_Witness ==
    /\ AveragesMade
    /\ \E x, y \in DOMAIN Frame :
        /\ Frame[x].white_ai = Frame[y].black_ai
        /\ Frame[x].moves # Frame[y].moves
        /\ Frame[x].moves > 0

\* ------------------------------------------------ claims on the runner
\* A step that starts a game, and a step that appends a game's result.
GameStarts == mpc # "loop" /\ mpc' = "loop"
ResultAppended == Len(results') = Len(results) + 1

\* C16: games are isolated and sequential: within run_tournament a game is
\* started only when every earlier game of the call has its GameResult in
\* the log, every run_match starts from the initial position with moves = 0,
\* time_white = 0 and time_black = 0, and a game's result depends on nothing
\* an earlier game left behind (the same pairing under the same limit gives
\* the same result again).
C16_GamesIsolatedSequential ==
    [][/\ GameStarts =>
            /\ board' = InitialBoard
            /\ moves' = 0
            /\ time_white' = 0
            /\ time_black' = 0
            /\ att' = NoAttempt
            /\ tpc = "running" => Len(results) = base + played
       /\ ResultAppended =>
            \A x \in base + 1 .. Len(results) :
                (results[x].white_ai = white_ai /\ results[x].black_ai = black_ai)
                    => results[x] = results'[Len(results')]]_vars

\* The second meeting of a pairing has started afresh after a first game in
\* which moves were applied and time was spent.
C16_Witness ==
    /\ tpc = "running"
    /\ mpc = "loop"
    /\ att = NoAttempt
    /\ played >= 2
    /\ \E x \in base + 1 .. Len(results) :
        /\ results[x].white_ai = white_ai
        /\ results[x].black_ai = black_ai
        /\ results[x].moves > 0
        /\ results[x].time_white > 0

InMatch == mpc \in {"loop", "returned", "raised"}

\* C17: the elapsed time of a call is added to the total of the colour to
\* move only when the move is within the limit and is then applied; a call
\* that ends in a forfeit (timeout or error) adds to neither total, so
\* time_white and time_black are the sums of the elapsed times of exactly
\* the applied moves of each colour.
C17_TimeOfAppliedMovesOnly ==
    InMatch => time_white = att.wtime /\ time_black = att.btime

\* What does hold: the totals are those of the applied moves as long as no
\* push has failed, and a timeout or a raising choose_move adds nothing.
TimeOfAppliedMovesUnlessPushFails ==
    (InMatch /\ att.outcome # "push_error") =>
        time_white = att.wtime /\ time_black = att.btime

\* C18: with agents whose calls all return and an engine that reports a
\* terminal position after finitely many moves, every run_match returns, and
\* run_tournament returns after running exactly N * (N - 1) * k matches.
\* Stated on the calls that have ended: none has ended otherwise than by
\* returning, and a returned run_tournament has run that many matches.
C18_CallsReturnAfterAllMatches ==
    /\ mpc # "raised"
    /\ tpc # "raised"
    /\ (tpc = "returned" /\ ValidArgs) => played = TotalGames(Len(ais), games_per_pair)

\* What does hold: no call blocks.  A game in progress ends, and a
\* tournament in progress ends, by a return or by an error.
MatchEnds == (mpc = "loop") ~> (mpc # "loop")
TournamentEnds == (tpc = "running") ~> (tpc \in {"returned", "raised"})

\* The sum of one column of a table.
RECURSIVE Total(_, _)
Total(rows, column) ==
    IF rows = <<>> THEN 0 ELSE Head(rows)[column] + Total(Tail(rows), column)

DistinctSides == \A x \in DOMAIN Frame : Frame[x].white_ai # Frame[x].black_ai

\* C19: in the table of get_win_rates every agent has wins + losses + draws
\* = games_played, and over all agents the wins sum to the losses and the
\* games_played sum to twice the number of log entries, the two sides of
\* every entry having different names.
C19_StatsBalance ==
    (WinRatesMade /\ DistinctSides) =>
        /\ \A x \in DOMAIN table.rows :
               table.rows[x].wins + table.rows[x].losses + table.rows[x].draws
                   = table.rows[x].games_played
        /\ Total(table.rows, "wins") = Total(table.rows, "losses")
        /\ Total(table.rows, "games_played") = 2 * Len(Frame)

\* Three agents, with decided and drawn games among them.
C19_Witness ==
    /\ WinRatesMade
    /\ DistinctSides
    /\ Len(table.rows) = 3
    /\ Total(table.rows, "wins") > 0
    /\ Total(table.rows, "draws") > 0

\* A step of run_match, of a call made directly or by run_tournament.
MatchStep ==
    \/ RunMatchDirect
    \/ CallRunMatch
    \/ ChooseMoveRaises
    \/ Timeout
    \/ PushRaises
    \/ MoveApplied
    \/ LoopExit

\* The log changes only in run_tournament, by one entry put at the end: the
\* result the run_match just finished has returned.
OnlyTournamentAppends ==
    /\ (MatchStep \/ GetResultsDf \/ GetWinRates \/ GetAverageGameLength) => results' = results
    /\ results' # results =>
          /\ tpc = "running"
          /\ mpc = "returned"
          /\ results' = Append(results, GameResult)

\* C20: run_match and get_results_df never change the result log; only
\* run_tournament appends to it, one entry per run_match it performs and in
\* the order of play, so that when a run_tournament call has ended the log
\* has grown by exactly the number of matches the call ran.
C20_LogGrowsByMatchesRun ==
    [][/\ OnlyTournamentAppends
       /\ tpc' \in {"returned", "raised"} => Len(results') = base' + played']_vars

\* What does hold: the frame half, and the count for the calls that return.
LogFrame ==
    [][/\ OnlyTournamentAppends
       /\ tpc' = "returned" => Len(results') = base' + played']_vars
====
